---- MODULE Spec2Model ----
(***************************************************************************)
(* A model of src/src/puppet.js (class Puppet): the puppeted Matrix        *)
(* session (startClient and the three event handlers it installs), the     *)
(* room registry (saveThirdPartyRoomId, getMatrixRoomMembers), setApp, and *)
(* the credential association flow (associate).                            *)
(*                                                                         *)
(* JavaScript values are modelled as follows.  A JS object is a function   *)
(* whose DOMAIN is the set of its own keys; a key that is absent reads as  *)
(* the string "undefined" (Get).  null is the string "null".  An           *)
(* undefined object-valued field is the record Undefined.                  *)
(***************************************************************************)
EXTENDS Integers, Sequences, FiniteSets, TLC

-----------------------------------------------------------------------------
(* Bounds of the model *)

\* number of startClient() invocations in one behaviour
MaxCalls == 2
\* number of event-id entries in the content of one receipt event
MaxEntries == 2
\* number of member ids in the state of one RoomState.members event
MaxMembers == 2
\* number of characters of a string given to Puppet.parseMxid
MaxMxidLen == 4

-----------------------------------------------------------------------------
(* Value universes *)

OwnId == "@a:b.com"
OtherId == "@x:b.com"
Users == {OwnId, OtherId}
Rooms == {"!r1:b.com", "!r2:b.com"}
ThirdPartyIds == {"tp1", "tp2"}
Apps == {"app1", "app2"}
SyncStates == {"PREPARED", "SYNCING", "ERROR", "RECONNECTING"}
Calls == 1..MaxCalls

Undefined == [undefined |-> TRUE]
EmptyObject == [k \in {} |-> "undefined"]

IsUndefined(o) == "undefined" \in DOMAIN o

\* o[k] of JavaScript: the value of an own key, undefined otherwise
Get(o, k) == IF k \in DOMAIN o THEN o[k] ELSE "undefined"

\* o[k] = v of JavaScript
Put(o, k, v) == [x \in DOMAIN o \cup {k} |-> IF x = k THEN v ELSE o[x]]

\* Object.keys() of an object whose keys are taken from S, at most n of
\* them: the sequences over S without repetition
KeyLists(S, n) ==
  {l \in UNION {[1..k -> S] : k \in 0..n} :
     \A i, j \in 1..Len(l) : i # j => l[i] # l[j]}

\* the content of a receipt event: one entry per event id, in the order
\* for-in enumerates them; an entry is the set of user ids that are keys
\* of its 'm.read' object
AckSets == {{OwnId}, {OtherId}}
Contents == UNION {[1..k -> AckSets] : k \in 0..MaxEntries}

-----------------------------------------------------------------------------
(* Configurations *)

\* puppet.id of the configurations: the puppeted user
PuppetId == OwnId

CfgFull ==
  [puppet |-> [id |-> PuppetId, token |-> "tok"],
   bridge |-> [homeserverUrl |-> "https://b.com"]]
CfgNoBridge == [puppet |-> [id |-> PuppetId, token |-> "tok"]]

Unreadable == [unreadable |-> TRUE]

-----------------------------------------------------------------------------
VARIABLES
  id,                \* this.id
  client,            \* this.client: 0 for null, else the call that created it
  thirdPartyRooms,   \* this.thirdPartyRooms
  app,               \* this.app
  config,            \* this.config: keys data, path, format
  matrixRoomMembers, \* this.matrixRoomMembers
  file,              \* the parsed content of the config file
  pc,                \* pc[c]: where invocation c of startClient() stands
  isSynced,          \* isSynced[c]: the closure variable of invocation c
  ret,               \* outcome of the last getMatrixRoomMembers() call
  sent,              \* calls made on the application by the last handler run
  lastOp,            \* the operation performed by the last step
  prepared,          \* prepared[c]: client c has emitted a PREPARED sync event
  everSetApp,        \* setApp() has been called
  lastApp,           \* the argument of the latest setApp() call
  lastBinding,       \* lastBinding[r]: third-party id of the latest save for r
  attachedEarly,     \* attachedEarly[c]: this.app was set before call c returned
  apc,               \* where the invocation of associate() stands
  args,              \* the args of associate(): detectConfigPath and argv
  userId,            \* const userId of associate()
  homeserver,        \* const homeserver of associate()
  accessDat,         \* const accessDat: what client.login resolved to
  resolved,          \* const { homeserverUrl, id, token } of associate()
  io,                \* counts of prompts, discovery queries, logins, writes
  output,            \* what associate() wrote to the file or printed
  orig               \* the config as associate() found it

assocVars ==
  <<apc, args, userId, homeserver, accessDat, resolved, io, output, orig>>

sessionVars ==
  <<id, client, thirdPartyRooms, app, config, matrixRoomMembers, file, pc,
    isSynced, ret, sent, lastOp, prepared, everSetApp, lastApp, lastBinding,
    attachedEarly>>

\* what the properties below need to remember of the past
history == <<everSetApp, lastApp, lastBinding, attachedEarly>>

NoRet == [kind |-> "none"]

\* constructor(args)
Constructed ==
  /\ id = "null"
  /\ client = 0
  /\ thirdPartyRooms = EmptyObject
  /\ app = "null"
  /\ matrixRoomMembers = Undefined
  /\ pc = [c \in Calls |-> "idle"]
  /\ isSynced = [c \in Calls |-> FALSE]
  /\ ret = NoRet
  /\ sent = <<>>
  /\ lastOp = [kind |-> "new"]
  /\ prepared = [c \in Calls |-> FALSE]
  /\ everSetApp = FALSE
  /\ lastApp = "null"
  /\ lastBinding = [r \in Rooms |-> "undefined"]
  /\ attachedEarly = [c \in Calls |-> FALSE]

NoIo == [id |-> 0, homeserver |-> 0, password |-> 0, discovery |-> 0,
         login |-> 0, write |-> 0, print |-> 0]

\* associate() has not been called
AssocIdle ==
  /\ apc = "idle"
  /\ args = [detectConfigPath |-> FALSE]
  /\ userId = "undefined"
  /\ homeserver = "undefined"
  /\ accessDat = Undefined
  /\ resolved = Undefined
  /\ io = NoIo
  /\ output = Undefined
  /\ orig = Undefined

\* constructor(args): args an options object, or (legacy) the config path
SessionConfigs ==
  {<<[data |-> CfgFull, path |-> "config.yaml", format |-> "yaml"], Unreadable>>,
   <<[data |-> CfgNoBridge, path |-> "config.yaml", format |-> "yaml"], Unreadable>>,
   <<[path |-> "config.json", format |-> "json"], [puppet |-> CfgFull]>>,
   <<[path |-> "config.json", format |-> "json"], Unreadable>>}

Init ==
  /\ Constructed
  /\ AssocIdle
  /\ \E cf \in SessionConfigs : config = cf[1] /\ file = cf[2]

-----------------------------------------------------------------------------
(* Puppet.getConfig *)

\* typeof this.config.data === "object"
HasData == "data" \in DOMAIN config /\ ~IsUndefined(config.data)

\* JSON.parse(buffer).puppet / yaml.safeLoad(buffer).puppet
ParsedPuppet(f) == IF "puppet" \in DOMAIN f THEN f.puppet ELSE Undefined

-----------------------------------------------------------------------------
(* The handlers startClient() installs on the client *)

\* this.client.startClient() of line 115 has been called in invocation c:
\* the client emits events from then on, in later turns of the event loop.
\* "started" is the window between line 115 and the last client.on(...) of
\* line 142; startClient() has no suspension point in it
Started(c) == pc[c] \in {"started", "waiting", "done"}

\* the three handlers of invocation c are registered (lines 119, 123, 142)
Listening(c) == pc[c] \in {"waiting", "done"}

\* reg[room] || []
MembersOf(reg, room) == IF room \in DOMAIN reg THEN reg[room] ELSE <<>>

\* a handler that adds the event's members to the recorded ones
MembersHandlerMerge(room, members) ==
  Put(matrixRoomMembers, room,
      MembersOf(matrixRoomMembers, room) \o
        SelectSeq(members, LAMBDA u :
                    \A i \in 1..Len(MembersOf(matrixRoomMembers, room)) :
                      MembersOf(matrixRoomMembers, room)[i] # u))

\* "RoomState.members":
\* this.matrixRoomMembers[state.roomId] = Object.keys(state.members)
MembersHandler(room, members) == Put(matrixRoomMembers, room, members)

\* the two nested for-in loops of the "Room.receipt" handler, from entry i
\* on: the first userId === this.id makes the call and returns
RECURSIVE ScanContent(_, _, _)
ScanContent(room, content, i) ==
  IF i > Len(content) THEN <<>>
  ELSE IF id \in content[i]
       THEN <<[app |-> app, room |-> Get(thirdPartyRooms, room)]>>
       ELSE ScanContent(room, content, i + 1)

\* the loops without the return: one call per matching entry
RECURSIVE ScanContentNoReturn(_, _, _)
ScanContentNoReturn(room, content, i) ==
  IF i > Len(content) THEN <<>>
  ELSE (IF id \in content[i]
        THEN <<[app |-> app, room |-> Get(thirdPartyRooms, room)]>>
        ELSE <<>>) \o ScanContentNoReturn(room, content, i + 1)

ReceiptHandlerNoReturn(room, content) ==
  IF app = "null" THEN <<>>
  ELSE IF room \in DOMAIN thirdPartyRooms
       THEN ScanContentNoReturn(room, content, 1)
       ELSE <<>>

\* a handler that does not look the room up in this.thirdPartyRooms
ReceiptHandlerUnboundRooms(room, content) ==
  IF app = "null" THEN <<>> ELSE ScanContent(room, content, 1)

\* "Room.receipt": the calls the handler makes on this.app
ReceiptHandler(room, content) ==
  IF app = "null" THEN <<>>
  ELSE IF room \in DOMAIN thirdPartyRooms
       THEN ScanContent(room, content, 1)
       ELSE <<>>

\* a handler that compares the state with another spelling and so never
\* sees the ready state
SyncHandlerNeverReady(c, state) == isSynced[c]

\* a handler that takes every sync state for the ready state
SyncHandlerAnyState(c, state) == TRUE

\* "sync": the new value of isSynced of invocation c
SyncHandler(c, state) == IF state = "PREPARED" THEN TRUE ELSE isSynced[c]

\* the number of entries of a receipt content in which user u acknowledges
Matches(content, u) == Cardinality({i \in 1..Len(content) : u \in content[i]})

-----------------------------------------------------------------------------
(* Operations *)

Quiet == ret' = NoRet /\ sent' = <<>>

\* setApp(app)
SetApp(a) ==
  /\ app' = a
  /\ everSetApp' = TRUE
  /\ lastApp' = a
  /\ attachedEarly' = [c \in Calls |-> a # "null" /\ pc[c] # "done"]
  /\ lastOp' = [kind |-> "setApp"]
  /\ UNCHANGED assocVars
  /\ Quiet
  /\ UNCHANGED <<id, client, thirdPartyRooms, config, matrixRoomMembers, file,
                 pc, isSynced, prepared, lastBinding>>

\* a save that keeps the first binding of a room
SaveThirdPartyRoomIdKeepFirst(matrixRoomId, thirdPartyRoomId) ==
  /\ thirdPartyRooms' =
       IF matrixRoomId \in DOMAIN thirdPartyRooms THEN thirdPartyRooms
       ELSE Put(thirdPartyRooms, matrixRoomId, thirdPartyRoomId)
  /\ lastBinding' = [lastBinding EXCEPT ![matrixRoomId] = thirdPartyRoomId]
  /\ lastOp' = [kind |-> "save"]
  /\ UNCHANGED assocVars
  /\ Quiet
  /\ UNCHANGED <<id, client, app, config, matrixRoomMembers, file, pc,
                 isSynced, prepared, everSetApp, lastApp, attachedEarly>>

\* saveThirdPartyRoomId(matrixRoomId, thirdPartyRoomId)
SaveThirdPartyRoomId(matrixRoomId, thirdPartyRoomId) ==
  /\ thirdPartyRooms' = Put(thirdPartyRooms, matrixRoomId, thirdPartyRoomId)
  /\ lastBinding' = [lastBinding EXCEPT ![matrixRoomId] = thirdPartyRoomId]
  /\ lastOp' = [kind |-> "save"]
  /\ UNCHANGED assocVars
  /\ Quiet
  /\ UNCHANGED <<id, client, app, config, matrixRoomMembers, file, pc,
                 isSynced, prepared, everSetApp, lastApp, attachedEarly>>

\* getMatrixRoomMembers(roomId): this.matrixRoomMembers[roomId] || []
GetMatrixRoomMembers(roomId) ==
  /\ ret' = IF IsUndefined(matrixRoomMembers)
            THEN [kind |-> "throw", error |-> "TypeError"]
            ELSE [kind |-> "return", value |-> MembersOf(matrixRoomMembers, roomId)]
  /\ lastOp' = [kind |-> "getMatrixRoomMembers", room |-> roomId]
  /\ UNCHANGED assocVars
  /\ sent' = <<>>
  /\ UNCHANGED <<id, client, thirdPartyRooms, app, config, matrixRoomMembers,
                 file, pc, isSynced, prepared, history>>

\* startClient(), up to the suspension in `await this.getConfig()`: with
\* config.data loaded getConfig() returns it, else it awaits readFile
StartClientCall(c) ==
  /\ pc[c] = "idle"
  /\ \A d \in Calls : d < c => pc[d] # "idle"
  /\ pc' = [pc EXCEPT ![c] = IF HasData THEN "config" ELSE "read"]
  /\ lastOp' = [kind |-> "startClient"]
  /\ UNCHANGED assocVars
  /\ Quiet
  /\ UNCHANGED <<id, client, thirdPartyRooms, app, config, matrixRoomMembers,
                 file, isSynced, prepared, history>>

\* a body that awaits this.client.startClient() at line 115: it is
\* suspended with the client started and no handler registered yet
StartClientBodyAwaitsStart(c, cfg) ==
  IF IsUndefined(cfg) \/ "puppet" \notin DOMAIN cfg
  THEN /\ pc' = [pc EXCEPT ![c] = "failed"]
       /\ UNCHANGED <<id, client, matrixRoomMembers, isSynced>>
  ELSE /\ id' = Get(cfg.puppet, "id")
       /\ IF "bridge" \notin DOMAIN cfg
          THEN /\ pc' = [pc EXCEPT ![c] = "failed"]
               /\ UNCHANGED <<client, matrixRoomMembers, isSynced>>
          ELSE /\ client' = c
               /\ pc' = [pc EXCEPT ![c] = "started"]
               /\ UNCHANGED <<matrixRoomMembers, isSynced>>

\* lines 109-149 of startClient() for the config object cfg, up to the
\* first suspension of utils.until
StartClientBody(c, cfg) ==
  IF IsUndefined(cfg) \/ "puppet" \notin DOMAIN cfg
  THEN \* config.puppet.id throws a TypeError
       /\ pc' = [pc EXCEPT ![c] = "failed"]
       /\ UNCHANGED <<id, client, matrixRoomMembers, isSynced>>
  ELSE /\ id' = Get(cfg.puppet, "id")
       /\ IF "bridge" \notin DOMAIN cfg
          THEN \* config.bridge.homeserverUrl throws a TypeError
               /\ pc' = [pc EXCEPT ![c] = "failed"]
               /\ UNCHANGED <<client, matrixRoomMembers, isSynced>>
          ELSE /\ client' = c
               /\ matrixRoomMembers' = EmptyObject
               /\ isSynced' = [isSynced EXCEPT ![c] = FALSE]
               /\ pc' = [pc EXCEPT ![c] = "waiting"]

\* startClient() resumes from `await this.getConfig()`
StartClientResume(c) ==
  /\ pc[c] \in {"config", "read"}
  /\ lastOp' = [kind |-> "resume"]
  /\ UNCHANGED assocVars
  /\ Quiet
  /\ UNCHANGED <<thirdPartyRooms, app, file, prepared, history>>
  /\ IF pc[c] = "config"
     THEN StartClientBody(c, config.data) /\ UNCHANGED config
     ELSE IF file = Unreadable
          THEN \* readFile rejects
               /\ pc' = [pc EXCEPT ![c] = "failed"]
               /\ UNCHANGED <<id, client, config, matrixRoomMembers, isSynced>>
          ELSE /\ config' = Put(config, "data", ParsedPuppet(file))
               /\ StartClientBody(c, ParsedPuppet(file))

\* utils.until(cond): polls, suspending between polls, for as long as
\* cond() holds, and returns at the first poll at which it does not
UntilReturns(cond) == ~cond

\* one poll of `await utils.until(() => !isSynced)` in invocation c
Poll(c) ==
  /\ pc[c] = "waiting"
  /\ pc' = [pc EXCEPT ![c] = IF UntilReturns(~isSynced[c]) THEN "done" ELSE "waiting"]
  /\ lastOp' = [kind |-> "poll"]
  /\ UNCHANGED assocVars
  /\ Quiet
  /\ UNCHANGED <<id, client, thirdPartyRooms, app, config, matrixRoomMembers,
                 file, isSynced, prepared, history>>

\* the client of invocation c emits "sync" with the given state
SyncEvent(c, state) ==
  /\ Started(c)
  /\ isSynced' = [isSynced EXCEPT
                    ![c] = IF Listening(c) THEN SyncHandler(c, state) ELSE @]
  /\ prepared' = [prepared EXCEPT ![c] = prepared[c] \/ state = "PREPARED"]
  /\ lastOp' = [kind |-> "sync", client |-> c, state |-> state]
  /\ UNCHANGED assocVars
  /\ Quiet
  /\ UNCHANGED <<id, client, thirdPartyRooms, app, config, matrixRoomMembers,
                 file, pc, history>>

\* the client of invocation c emits "RoomState.members" for a room state
\* whose members object has the keys `members`
MembersEvent(c, room, members) ==
  /\ Started(c)
  /\ matrixRoomMembers' =
       IF Listening(c) THEN MembersHandler(room, members) ELSE matrixRoomMembers
  /\ lastOp' = [kind |-> "members", room |-> room, members |-> members]
  /\ UNCHANGED assocVars
  /\ Quiet
  /\ UNCHANGED <<id, client, thirdPartyRooms, app, config, file, pc, isSynced,
                 prepared, history>>

\* the client of invocation c emits "Room.receipt" for a room
ReceiptEvent(c, room, content) ==
  /\ Started(c)
  /\ sent' = IF Listening(c) THEN ReceiptHandler(room, content) ELSE <<>>
  /\ ret' = NoRet
  /\ lastOp' = [kind |-> "receipt", client |-> c, room |-> room,
                matches |-> Matches(content, PuppetId)]
  /\ UNCHANGED assocVars
  /\ UNCHANGED <<id, client, thirdPartyRooms, app, config, matrixRoomMembers,
                 file, pc, isSynced, prepared, history>>

\* receipt routing: the session, the application handle, the bindings (of
\* one room; the other stays unbound) and the receipt and sync events
Next ==
  \/ \E a \in Apps \cup {"null"} : SetApp(a)
  \/ \E r \in {"!r1:b.com"}, t \in ThirdPartyIds : SaveThirdPartyRoomId(r, t)
  \/ \E c \in Calls : StartClientCall(c)
  \/ \E c \in Calls : StartClientResume(c)
  \/ \E c \in Calls : Poll(c)
  \/ \E c \in Calls, s \in {"PREPARED", "ERROR"} : SyncEvent(c, s)
  \/ \E c \in Calls, r \in Rooms, k \in Contents : ReceiptEvent(c, r, k)

vars == <<sessionVars, assocVars>>

Spec == Init /\ [][Next]_vars

\* the membership registry: the session, the membership events and the
\* accessor, with one application and receipts of the puppeted user
NextRegistry ==
  \/ \E a \in {"app1"} : SetApp(a)
  \/ \E r \in Rooms : GetMatrixRoomMembers(r)
  \/ \E c \in Calls : StartClientCall(c)
  \/ \E c \in Calls : StartClientResume(c)
  \/ \E c \in Calls : Poll(c)
  \/ \E c \in Calls, s \in {"PREPARED"} : SyncEvent(c, s)
  \/ \E c \in Calls, r \in Rooms, m \in KeyLists(Users, MaxMembers) :
       MembersEvent(c, r, m)
  \/ \E c \in Calls, r \in {"!r1:b.com"}, k \in {<<{OwnId}>>} : ReceiptEvent(c, r, k)

SpecRegistry == Init /\ [][NextRegistry]_vars

\* the readiness wait: the invocations of startClient(), the polls of
\* utils.until and the sync events of every state
NextWait ==
  \/ \E c \in Calls : StartClientCall(c)
  \/ \E c \in Calls : StartClientResume(c)
  \/ \E c \in Calls : Poll(c)
  \/ \E c \in Calls, s \in SyncStates : SyncEvent(c, s)

\* utils.until keeps polling its condition for as long as startClient() is
\* suspended at line 149, so a poll that can go on is not put off for ever;
\* nothing obliges the server to send an event
SpecWait == Init /\ [][NextWait]_vars /\ \A c \in Calls : WF_vars(Poll(c))

-----------------------------------------------------------------------------
(* Puppet.associate: strings and the environment *)

\* the characters of the strings that are parsed
Text ==
  ("@a:b.com" :> <<"@", "a", ":", "b", ".", "c", "o", "m">>) @@
  ("alice" :> <<"a", "l", "i", "c", "e">>) @@
  ("@a:b:8448" :> <<"@", "a", ":", "b", ":", "8", "4", "4", "8">>)

\* characters that `.` of a regular expression does not match
LineTerminators == {"\n", "\r"}

\* a parse that splits at the last colon, as a greedy first group does
ParseMxidLastColon(cs) ==
  IF /\ \E i \in 1..Len(cs) : cs[i] = ":"
     /\ \A i \in 1..Len(cs) : cs[i] \notin LineTerminators
  THEN LET i == CHOOSE k \in 1..Len(cs) :
                  cs[k] = ":" /\ \A j \in (k + 1)..Len(cs) : cs[j] # ":"
       IN  [ok |-> TRUE, localpart |-> SubSeq(cs, 1, i - 1),
            domain |-> SubSeq(cs, i + 1, Len(cs))]
  ELSE [ok |-> FALSE]

\* Puppet.parseMxid: /^(.*?):(.*)$/ splits at the first colon; no match
\* (an Error is thrown) without a colon or with a line terminator
ParseMxid(cs) ==
  IF /\ \E i \in 1..Len(cs) : cs[i] = ":"
     /\ \A i \in 1..Len(cs) : cs[i] \notin LineTerminators
  THEN LET i == CHOOSE k \in 1..Len(cs) :
                  cs[k] = ":" /\ \A j \in 1..(k - 1) : cs[j] # ":"
       IN  [ok |-> TRUE, localpart |-> SubSeq(cs, 1, i - 1),
            domain |-> SubSeq(cs, i + 1, Len(cs))]
  ELSE [ok |-> FALSE]

\* `${new URL(x)}`: the href of an absolute URL; the other strings throw
UrlHref == ("https://hs.b.com" :> "https://hs.b.com/")

\* what the operator types at the prompts
IdInputs == {"@a:b.com", "alice", "@a:b:8448"}
HomeserverInputs == {"https://hs.b.com", "hs.b.com"}

\* clientConfig["m.homeserver"] of AutoDiscovery.findClientConfig
DiscoveryResults ==
  {[state |-> "SUCCESS", base_url |-> "https://d.b.com"],
   [state |-> "FAIL_PROMPT", error |-> "Invalid homeserver discovery response"]}

\* the outcome of client.login: a rejection, or accessDat
LoginResults ==
  {[rejected |-> TRUE],
   [access_token |-> "tok2"],
   [access_token |-> "tok2", user_id |-> "@a:b.com"],
   [access_token |-> "tok2", well_known |-> "https://wk.b.com"],
   [access_token |-> "tok2", user_id |-> "@a:b.com", well_known |-> "https://wk.b.com"]}

\* config.data as associate() may find it
AssocConfigs ==
  {CfgFull,
   [puppet |-> [id |-> "alice", token |-> "tok"],
    bridge |-> [homeserverUrl |-> "https://b.com", domain |-> "b.com"],
    port |-> "8090"],
   EmptyObject,
   [puppet |-> [id |-> "@a:b.com"]],
   [puppet |-> [id |-> "@a:b.com"], bridge |-> [homeserverUrl |-> "https://b.com"]],
   [puppet |-> [id |-> "@a:b.com", token |-> "tok"], port |-> "8090"],
   [puppet |-> [id |-> "alice", token |-> "tok"]],
   [bridge |-> [homeserverUrl |-> "https://b.com", domain |-> "b.com"],
    port |-> "8090"],
   [puppet |-> [token |-> "tok"], bridge |-> [domain |-> "b.com"]]}

\* config.X !== undefined && config.X.Y !== undefined
Has(cfg, x, y) == x \in DOMAIN cfg /\ y \in DOMAIN cfg[x]

\* Object.assign(target, source)
ObjectAssign(target, source) ==
  [k \in DOMAIN target \cup DOMAIN source |->
     IF k \in DOMAIN source THEN source[k] ELSE target[k]]

-----------------------------------------------------------------------------
(* Puppet.associate: the steps between its suspensions *)

Count(what) == [io EXCEPT ![what] = @ + 1]

AssocFrame ==
  /\ ret' = NoRet /\ sent' = <<>>
  /\ UNCHANGED <<id, client, thirdPartyRooms, app, matrixRoomMembers, pc,
                 isSynced, prepared, history>>

\* associate(args), up to the suspension in `await this.getConfig()`
AssociateCall(a) ==
  /\ apc = "idle"
  /\ apc' = IF HasData THEN "config" ELSE "read"
  /\ args' = a
  /\ lastOp' = [kind |-> "associate"]
  /\ AssocFrame
  /\ UNCHANGED <<accessDat, config, file, userId, homeserver, resolved, io, output, orig>>

\* associate() resumes from getConfig(): readFile may have rejected
AssociateResume ==
  /\ apc \in {"config", "read"}
  /\ lastOp' = [kind |-> "config"]
  /\ AssocFrame
  /\ UNCHANGED <<accessDat, args, file, userId, homeserver, resolved, io, output>>
  /\ IF apc = "config"
     THEN /\ apc' = "id"
          /\ orig' = config.data
          /\ UNCHANGED config
     ELSE IF file = Unreadable
          THEN apc' = "failed" /\ UNCHANGED <<config, orig>>
          ELSE /\ config' = Put(config, "data", ParsedPuppet(file))
               /\ orig' = ParsedPuppet(file)
               /\ apc' = IF IsUndefined(ParsedPuppet(file)) THEN "failed" ELSE "id"

\* lines 194-198: config.puppet.id, or the prompt "Enter your user id"
ResolveUserId ==
  /\ apc = "id"
  /\ IF Has(config.data, "puppet", "id")
     THEN userId' = config.data.puppet.id /\ apc' = "homeserver" /\ UNCHANGED io
     ELSE apc' = "readId" /\ io' = Count("id") /\ UNCHANGED userId
  /\ lastOp' = [kind |-> "userId"]
  /\ AssocFrame
  /\ UNCHANGED <<accessDat, config, file, args, homeserver, resolved, output, orig>>

\* read({ silent: false }) returns the user id typed
ReadUserId(input) ==
  /\ apc = "readId"
  /\ userId' = input
  /\ apc' = "homeserver"
  /\ lastOp' = [kind |-> "readId"]
  /\ AssocFrame
  /\ UNCHANGED <<accessDat, config, file, args, homeserver, resolved, io, output, orig>>

\* lines 200-216: config.bridge.homeserverUrl, or parseMxid(userId) and
\* findHome(domain), or (parseMxid threw) the prompt for a homeserver URL
ResolveHomeserver ==
  /\ apc = "homeserver"
  /\ IF Has(config.data, "bridge", "homeserverUrl")
     THEN /\ homeserver' = config.data.bridge.homeserverUrl
          /\ apc' = "token"
          /\ UNCHANGED io
          /\ lastOp' = [kind |-> "homeserver", from |-> "config"]
     ELSE IF ParseMxid(Text[userId]).ok
          THEN /\ apc' = "findHome"
               /\ io' = Count("discovery")
               /\ UNCHANGED homeserver
               /\ lastOp' = [kind |-> "homeserver", from |-> "discovery",
                             domain |-> ParseMxid(Text[userId]).domain]
          ELSE /\ apc' = "readHomeserver"
               /\ io' = Count("homeserver")
               /\ UNCHANGED homeserver
               /\ lastOp' = [kind |-> "homeserver", from |-> "prompt"]
  /\ AssocFrame
  /\ UNCHANGED <<accessDat, config, file, args, userId, resolved, output, orig>>

\* findHome(domain) settles.  Both calls are `return findHome(...)` with
\* no await, so a rejection (hs.state !== "SUCCESS": throw hs.error) is
\* not caught by the enclosing try: it rejects the await of line 201
FindHomeSettles(hs) ==
  /\ apc \in {"findHome", "findHomeAgain"}
  /\ IF hs.state = "SUCCESS"
     THEN homeserver' = hs.base_url /\ apc' = "token"
     ELSE apc' = "failed" /\ UNCHANGED homeserver
  /\ lastOp' = [kind |-> "findHome", state |-> hs.state,
                first |-> apc = "findHome"]
  /\ AssocFrame
  /\ UNCHANGED <<accessDat, config, file, args, userId, resolved, io, output, orig>>

\* lines 217-225: the homeserver typed at the prompt, as the href of the
\* URL it parses to, or else findHome() of it as a domain
ReadHomeserver(input) ==
  /\ apc = "readHomeserver"
  /\ IF input \in DOMAIN UrlHref
     THEN homeserver' = UrlHref[input] /\ apc' = "token" /\ UNCHANGED io
     ELSE apc' = "findHomeAgain" /\ io' = Count("discovery") /\ UNCHANGED homeserver
  /\ lastOp' = [kind |-> "readHomeserver"]
  /\ AssocFrame
  /\ UNCHANGED <<accessDat, config, file, args, userId, resolved, output, orig>>

\* a login that is made whether or not the config holds a token
ResolveTokenAlwaysLogin ==
  /\ apc = "token"
  /\ apc' = "readPassword" /\ io' = Count("password") /\ UNCHANGED resolved
  /\ lastOp' = [kind |-> "token"]
  /\ AssocFrame
  /\ UNCHANGED <<accessDat, config, file, args, userId, homeserver, output, orig>>

\* lines 229-235: config.puppet.token with the values resolved so far, or
\* the prompt "Enter password for ..."
ResolveToken ==
  /\ apc = "token"
  /\ IF Has(config.data, "puppet", "token")
     THEN /\ resolved' = [homeserverUrl |-> homeserver, id |-> userId,
                          token |-> config.data.puppet.token]
          /\ apc' = "persist"
          /\ UNCHANGED io
     ELSE apc' = "readPassword" /\ io' = Count("password") /\ UNCHANGED resolved
  /\ lastOp' = [kind |-> "token"]
  /\ AssocFrame
  /\ UNCHANGED <<accessDat, config, file, args, userId, homeserver, output, orig>>

\* read({ silent: true, replace: '*' }) returns the password:
\* matrixSdk.createClient(homeserver) and client.login(...) are called
ReadPassword ==
  /\ apc = "readPassword"
  /\ apc' = "login"
  /\ io' = Count("login")
  /\ lastOp' = [kind |-> "readPassword"]
  /\ AssocFrame
  /\ UNCHANGED <<accessDat, config, file, args, userId, homeserver, resolved,
                 output, orig>>

\* a prompt fails (read() rejects, e.g. the input is closed)
ReadRejects ==
  /\ apc \in {"readId", "readHomeserver", "readPassword"}
  /\ apc' = "failed"
  /\ lastOp' = [kind |-> "readRejects"]
  /\ AssocFrame
  /\ UNCHANGED <<accessDat, config, file, args, userId, homeserver, resolved,
                 io, output, orig>>

\* lines 237-247: client.login settles with accessDat, or rejects
LoginSettles(response) ==
  /\ apc = "login"
  /\ IF "rejected" \in DOMAIN response
     THEN apc' = "failed" /\ UNCHANGED <<accessDat, resolved>>
     ELSE /\ accessDat' = response
          /\ resolved' =
               [token |-> response.access_token,
                id |-> IF "user_id" \in DOMAIN response
                       THEN response.user_id ELSE userId,
                homeserverUrl |-> IF "well_known" \in DOMAIN response
                                  THEN response.well_known ELSE homeserver]
          /\ apc' = "persist"
  /\ lastOp' = [kind |-> "login"]
  /\ AssocFrame
  /\ UNCHANGED <<config, file, args, userId, homeserver, io, output, orig>>

\* a test that leaves the token out of the comparison
ConfigDiffersButToken ==
  \/ "puppet" \notin DOMAIN config.data
  \/ "bridge" \notin DOMAIN config.data
  \/ Get(config.data.puppet, "id") # resolved.id
  \/ Get(config.data.bridge, "homeserverUrl") # homeserver

\* line 250: the config lacks a section or differs from the values resolved
\* (the homeserver compared is the local const homeserver)
ConfigDiffers ==
  \/ "puppet" \notin DOMAIN config.data
  \/ "bridge" \notin DOMAIN config.data
  \/ Get(config.data.puppet, "id") # resolved.id
  \/ Get(config.data.puppet, "token") # resolved.token
  \/ Get(config.data.bridge, "homeserverUrl") # homeserver

\* lines 251-259
PuppetConfig ==
  [puppet |-> [id |-> resolved.id, token |-> resolved.token],
   bridge |-> [homeserverUrl |-> homeserver]]

\* lines 262-263: this.config.path, else Puppet.detectConfigPath() if asked
ConfigPath ==
  IF "path" \in DOMAIN config THEN config.path
  ELSE IF args.detectConfigPath THEN Get(args, "argvConfig") ELSE "undefined"

\* lines 250-276 up to `await writeFile(...)`: the merge into the config
\* object, then the write is started or the section is printed
Persist ==
  /\ apc = "persist"
  /\ IF ConfigDiffers
     THEN /\ config' = Put(config, "data", ObjectAssign(config.data, PuppetConfig))
          /\ IF ConfigPath # "undefined"
             THEN /\ apc' = "write"
                  /\ UNCHANGED <<io, output>>
             ELSE /\ apc' = "done"
                  /\ io' = Count("print")
                  /\ output' = PuppetConfig
     ELSE apc' = "done" /\ UNCHANGED <<config, io, output>>
  /\ lastOp' = [kind |-> "persist"]
  /\ AssocFrame
  /\ UNCHANGED <<accessDat, file, args, userId, homeserver, resolved, orig>>

\* writeFile(configPath, serialised newConfig) settles
WriteSettles(ok) ==
  /\ apc = "write"
  /\ IF ok
     THEN /\ file' = config.data
          /\ output' = config.data
          /\ io' = Count("write")
          /\ apc' = "done"
     ELSE apc' = "failed" /\ UNCHANGED <<file, output, io>>
  /\ lastOp' = [kind |-> "write"]
  /\ AssocFrame
  /\ UNCHANGED <<accessDat, config, args, userId, homeserver, resolved, orig>>

\* the args of associate(): none, or detectConfigPath with what
\* Puppet.detectConfigPath() finds in argv
AssociateArgs ==
  {[detectConfigPath |-> FALSE],
   [detectConfigPath |-> TRUE],
   [detectConfigPath |-> TRUE, argvConfig |-> "argv.yaml"]}

\* the association flow on a constructed Puppet
InitAssoc ==
  /\ Constructed
  /\ AssocIdle
  /\ \/ /\ \E d \in AssocConfigs :
             config \in {[data |-> d],
                         [data |-> d, path |-> "config.yaml", format |-> "yaml"]}
        /\ file = Unreadable
     \/ /\ config = [path |-> "config.json", format |-> "json"]
        /\ file \in {Unreadable, [puppet |-> CfgFull], [bridge |-> CfgFull.bridge]}

NextAssoc ==
  \/ \E a \in AssociateArgs : AssociateCall(a)
  \/ AssociateResume
  \/ ResolveUserId
  \/ \E input \in IdInputs : ReadUserId(input)
  \/ ResolveHomeserver
  \/ \E hs \in DiscoveryResults : FindHomeSettles(hs)
  \/ \E input \in HomeserverInputs : ReadHomeserver(input)
  \/ ResolveToken
  \/ ReadPassword
  \/ ReadRejects
  \/ \E response \in LoginResults : LoginSettles(response)
  \/ Persist
  \/ \E ok \in BOOLEAN : WriteSettles(ok)

SpecAssoc == InitAssoc /\ [][NextAssoc]_vars

\* every prompt, query, login and write settles, and the continuation of an
\* await that has settled is run: a step of associate() that can be taken
\* is taken
SpecAssocFair == InitAssoc /\ [][NextAssoc]_vars /\ WF_vars(NextAssoc)

-----------------------------------------------------------------------------
(* Receipt routing *)

IsReceipt == lastOp.kind = "receipt"

\* C1: a receipt is forwarded only when setApp() has been called before and
\* an application is attached, and only for a room that
\* saveThirdPartyRoomId() has bound before; the call carries that binding.
C1_ForwardNeedsAppAndBinding ==
  sent # <<>> =>
    /\ IsReceipt
    /\ everSetApp
    /\ lastBinding[lastOp.room] # "undefined"
    /\ \A i \in 1..Len(sent) :
         sent[i].app # "null" /\ sent[i].room # "undefined"

\* a receipt of the puppeted user in a bound room has been forwarded
C1_Witness ==
  /\ IsReceipt /\ Len(sent) = 1 /\ everSetApp
  /\ lastBinding[lastOp.room] # "undefined"

\* C2: one receipt event makes at most one call on the application, however
\* many of its entries hold the puppeted user's id.
C2_AtMostOneForward == Len(sent) <= 1

\* a receipt with the puppeted user's id under two event ids made one call
C2_Witness == IsReceipt /\ lastOp.matches >= 2 /\ Len(sent) = 1

\* C3: for a receipt on a bound room with an application attached, exactly
\* one call is made when the puppeted user's id acknowledges under some
\* event id and none otherwise; the call goes to the application of the
\* latest setApp() with the third-party id of the latest save for the room.
C3_ForwardExactlyOwnReceipts ==
  (IsReceipt /\ lastApp # "null" /\ lastBinding[lastOp.room] # "undefined") =>
    IF lastOp.matches >= 1
    THEN sent = <<[app |-> lastApp, room |-> lastBinding[lastOp.room]]>>
    ELSE sent = <<>>

\* the second application attached received the second id bound to the room
C3_Witness ==
  /\ IsReceipt /\ lastOp.matches >= 1
  /\ sent = <<[app |-> "app2", room |-> "tp2"]>>

\* another user's receipt on a bound room with an application attached
C3_WitnessOthers ==
  /\ IsReceipt /\ lastOp.matches = 0 /\ sent = <<>>
  /\ lastApp # "null" /\ lastBinding[lastOp.room] # "undefined"

-----------------------------------------------------------------------------
(* Readiness *)

\* C4: startClient() returns only after a PREPARED sync event has reached
\* the handler of that invocation.
C4_ReturnsOnlyAfterPrepared == \A c \in Calls : pc[c] = "done" => prepared[c]

\* one invocation has returned while another still waits for PREPARED
C4_Witness ==
  \E c, d \in Calls : pc[c] = "done" /\ pc[d] = "waiting" /\ ~prepared[d]

\* C5 as stated: no receipt is forwarded before the sync state of the
\* forwarding client has reached PREPARED.
C5_NoForwardBeforePrepared ==
  (IsReceipt /\ sent # <<>>) => prepared[lastOp.client]

\* C5 amended: a receipt forwarded before the forwarding client has reached
\* PREPARED goes to an application that was attached before that
\* startClient() returned; an application attached only after startClient()
\* has returned sees no receipt from before PREPARED.
C5_ForwardBeforePreparedOnlyIfAttachedEarly ==
  (IsReceipt /\ sent # <<>> /\ ~prepared[lastOp.client]) =>
    attachedEarly[lastOp.client]

\* an application attached after startClient() returned received a receipt
C5_Witness ==
  /\ IsReceipt /\ sent # <<>>
  /\ ~attachedEarly[lastOp.client] /\ prepared[lastOp.client]

-----------------------------------------------------------------------------
(* The membership registry *)

\* C9: a membership event for a room makes the room's member list the full
\* list of that event, whatever was recorded before and whether or not an
\* application is attached, and leaves the other rooms' lists as they were;
\* setApp() and receipt events leave the registry as it was.
C9_MembershipLastWriteWins ==
  [][/\ lastOp'.kind = "members" =>
          /\ ~IsUndefined(matrixRoomMembers')
          /\ MembersOf(matrixRoomMembers', lastOp'.room) = lastOp'.members
          /\ \A r \in Rooms \ {lastOp'.room} :
               MembersOf(matrixRoomMembers', r) = MembersOf(matrixRoomMembers, r)
     /\ lastOp'.kind \in {"setApp", "receipt"} =>
          matrixRoomMembers' = matrixRoomMembers]_vars

\* with no application attached, a one-member event has replaced a room's
\* list while the other room keeps a two-member list
C9_Witness ==
  /\ lastOp.kind = "members" /\ lastOp.members = <<OtherId>>
  /\ app = "null"
  /\ MembersOf(matrixRoomMembers, lastOp.room) = <<OtherId>>
  /\ \E r \in Rooms \ {lastOp.room} : Len(MembersOf(matrixRoomMembers, r)) = 2

\* C10 as stated: getMatrixRoomMembers() of a room with no recorded
\* membership returns the empty list and does not throw.
C10_UnknownRoomYieldsEmpty ==
  (/\ lastOp.kind = "getMatrixRoomMembers"
   /\ (IsUndefined(matrixRoomMembers) \/ lastOp.room \notin DOMAIN matrixRoomMembers))
    => ret = [kind |-> "return", value |-> <<>>]

-----------------------------------------------------------------------------
(* Association *)

\* puppet.id, puppet.token and bridge.homeserverUrl are all present
FullyPopulated(cfg) ==
  /\ ~IsUndefined(cfg)
  /\ Has(cfg, "puppet", "id")
  /\ Has(cfg, "puppet", "token")
  /\ Has(cfg, "bridge", "homeserverUrl")

\* C6 as stated: with no bridge.homeserverUrl in the config, an identifier
\* that does not parse and a discovery for its domain that does not succeed
\* both lead to the prompt for a homeserver URL, not to the end of the
\* association.
C6_DiscoveryFailurePrompts ==
  /\ (lastOp.kind = "homeserver" /\ lastOp.from # "config"
        /\ ~ParseMxid(Text[userId]).ok) => apc = "readHomeserver"
  /\ (lastOp.kind = "findHome" /\ lastOp.first /\ lastOp.state # "SUCCESS")
       => apc = "readHomeserver"

\* C7 as stated: after a successful login, the homeserver URL that is
\* persisted (written or printed) is the one the login response advertises
\* when it carries a well_known, and the locally resolved one otherwise.
C7_PersistsAdvertisedHomeserver ==
  (~IsUndefined(accessDat) /\ ~IsUndefined(output)) =>
    output.bridge.homeserverUrl =
      IF "well_known" \in DOMAIN accessDat THEN accessDat.well_known
      ELSE homeserver

\* C8: on a config with puppet.id, puppet.token and bridge.homeserverUrl,
\* associate() asks nothing, queries no discovery, makes no login, writes
\* and prints nothing, leaves the config as it is, does not fail, and
\* resolves to exactly these three values.
C8_FullConfigResolvesUnchanged ==
  FullyPopulated(orig) =>
    /\ io = NoIo
    /\ apc \in {"id", "homeserver", "token", "persist", "done"}
    /\ config.data = orig
    /\ IsUndefined(output)
    /\ apc \in {"persist", "done"} =>
         /\ homeserver = orig.bridge.homeserverUrl
         /\ resolved = [homeserverUrl |-> orig.bridge.homeserverUrl,
                        id |-> orig.puppet.id, token |-> orig.puppet.token]

\* associate() has returned on a fully populated config whose id is no
\* localpart:domain and that holds other fields
C8_Witness ==
  /\ apc = "done" /\ FullyPopulated(orig)
  /\ orig.puppet.id = "alice" /\ "port" \in DOMAIN orig

-----------------------------------------------------------------------------
(* Failure of the association *)

\* the puppet and bridge sections of a config object
Sections(cfg) == [k \in DOMAIN cfg \cap {"puppet", "bridge"} |-> cfg[k]]

\* C11: when associate() has failed, at whatever stage, no config file has
\* been written and the in-memory config object holds the same puppet and
\* bridge sections as before the call.
C11_FailureLeavesConfigUntouched ==
  (apc = "failed" /\ ~IsUndefined(orig)) =>
    /\ io.write = 0
    /\ Sections(config.data) = Sections(orig)

-----------------------------------------------------------------------------
(* Failure of the start-up *)

\* C12: when the sync of an invocation of startClient() reports the error
\* state and never the ready state, that invocation fails (its promise
\* rejects) instead of waiting on.
C12_SyncErrorRejects ==
  \A c \in Calls :
    (lastOp = [kind |-> "sync", client |-> c, state |-> "ERROR"] /\ ~prepared[c])
      ~> (pc[c] = "failed" \/ prepared[c])

-----------------------------------------------------------------------------
(* The resolved credentials *)

\* C13: when associate() has succeeded, the homeserver URL, the user id and
\* the access token it resolves to are all defined and non-empty, and the
\* user id has the form localpart:domain, whichever way they were resolved.
C13_ResolvedWellFormed ==
  apc = "done" =>
    /\ resolved.homeserverUrl \notin {"undefined", "null", ""}
    /\ resolved.id \notin {"undefined", "null", ""}
    /\ resolved.token \notin {"undefined", "null", ""}
    /\ ParseMxid(Text[resolved.id]).ok

-----------------------------------------------------------------------------
(* The merge into the config *)

\* associate() has written the config file
Written == apc = "done" /\ lastOp.kind = "write"

\* the fields of a section of a config, none if the section is missing
FieldsOf(cfg, section) == IF section \in DOMAIN cfg THEN DOMAIN cfg[section] ELSE {}

\* C14: in the config file that associate() writes, every field of
\* the config as it was, other than puppet.id, puppet.token and
\* bridge.homeserverUrl, has the value it had, the other fields of the
\* puppet and bridge sections included.
C14_MergeKeepsEveryOtherField ==
  Written =>
    /\ \A k \in DOMAIN orig \ {"puppet", "bridge"} :
         k \in DOMAIN file /\ file[k] = orig[k]
    /\ \A f \in FieldsOf(orig, "puppet") \ {"id", "token"} :
         Get(file.puppet, f) = orig.puppet[f]
    /\ \A f \in FieldsOf(orig, "bridge") \ {"homeserverUrl"} :
         Get(file.bridge, f) = orig.bridge[f]

-----------------------------------------------------------------------------
(* The decision to persist *)

\* the triple that associate() resolves to differs from the config as it
\* was: a section is missing, or one of puppet.id, puppet.token and
\* bridge.homeserverUrl has another value
TripleDiffers ==
  \/ "puppet" \notin DOMAIN orig
  \/ "bridge" \notin DOMAIN orig
  \/ Get(orig.puppet, "id") # resolved.id
  \/ Get(orig.puppet, "token") # resolved.token
  \/ Get(orig.bridge, "homeserverUrl") # resolved.homeserverUrl

\* C15: once associate() has passed line 250, it has started the write of
\* the merged config (and printed nothing) if the resolved triple differs
\* from the config as it was and a config path is there, it has printed the
\* puppet and bridge sections (and written nothing) if the triple differs
\* and no path is there, and it has neither written nor printed if nothing
\* differs.
C15_PersistsExactlyWhenDifferent ==
  lastOp.kind \in {"persist", "write"} =>
    IF ~TripleDiffers
    THEN apc = "done" /\ io.write = 0 /\ io.print = 0 /\ IsUndefined(output)
    ELSE IF ConfigPath # "undefined"
         THEN /\ io.print = 0
              /\ lastOp.kind = "persist" => apc = "write"
              /\ apc = "done" =>
                   /\ io.write = 1
                   /\ file.puppet = [id |-> resolved.id, token |-> resolved.token]
         ELSE /\ apc = "done" /\ io.write = 0 /\ io.print = 1
              /\ DOMAIN output = {"puppet", "bridge"}
              /\ output.puppet = [id |-> resolved.id, token |-> resolved.token]

\* associate() has printed the sections after a login whose response
\* advertises a homeserver other than the one resolved locally
C15_Witness ==
  /\ apc = "done" /\ lastOp.kind = "persist"
  /\ TripleDiffers /\ io.print = 1
  /\ resolved.homeserverUrl # homeserver

-----------------------------------------------------------------------------
(* Puppet.parseMxid *)

\* the characters of the strings parsed: a colon, a line terminator and
\* two others
MxidChars == {"@", "a", ":", "\n"}

MxidStrings == UNION {[1..n -> MxidChars] : n \in 0..MaxMxidLen}

\* Puppet.parseMxid(mxid): the object returned, or the Error thrown
ParseMxidCall(cs) ==
  /\ ret' = IF ParseMxid(cs).ok
            THEN [kind |-> "return",
                  value |-> [localpart |-> ParseMxid(cs).localpart,
                             domain |-> ParseMxid(cs).domain]]
            ELSE [kind |-> "throw", error |-> "Invalid MXID"]
  /\ lastOp' = [kind |-> "parseMxid", mxid |-> cs]
  /\ UNCHANGED assocVars
  /\ sent' = <<>>
  /\ UNCHANGED <<id, client, thirdPartyRooms, app, config, matrixRoomMembers,
                 file, pc, isSynced, prepared, history>>

\* the static parser, called on any string at any time
NextParse == \E cs \in MxidStrings : ParseMxidCall(cs)

SpecParse == Init /\ [][NextParse]_vars

HasColon(cs) == \E i \in 1..Len(cs) : cs[i] = ":"

\* what the claim has parseMxid return for a string with a colon: the part
\* before the first colon, which holds no colon, and the part after it
SplitAtFirstColon(cs, r) ==
  /\ r.kind = "return"
  /\ r.value.localpart \o <<":">> \o r.value.domain = cs
  /\ ~HasColon(r.value.localpart)

\* C16 as stated: parseMxid returns the split at the first colon for every
\* string that holds a colon, and fails (returns nothing) for every other
\* string.
C16_ParsesExactlyColonStrings ==
  lastOp.kind = "parseMxid" =>
    IF HasColon(lastOp.mxid)
    THEN SplitAtFirstColon(lastOp.mxid, ret)
    ELSE ret.kind = "throw"

\* C16 (amended): parseMxid returns the split at the first colon for every
\* string that holds a colon and no line terminator, and fails for every
\* other string: one without a colon, or one with a line terminator
\* anywhere in it.
C16_ParsesSingleLineColonStrings ==
  lastOp.kind = "parseMxid" =>
    IF /\ HasColon(lastOp.mxid)
       /\ \A i \in 1..Len(lastOp.mxid) : lastOp.mxid[i] \notin {"\n", "\r"}
    THEN SplitAtFirstColon(lastOp.mxid, ret)
    ELSE ret.kind = "throw"

\* parseMxid has split a string with two colons
C16_Witness ==
  /\ lastOp.kind = "parseMxid"
  /\ lastOp.mxid = <<"@", ":", "a", ":">>
  /\ ret.kind = "return"
  /\ ret.value = [localpart |-> <<"@">>, domain |-> <<"a", ":">>]

-----------------------------------------------------------------------------
(* The readiness wait has no timeout *)

\* C17: an invocation of startClient() whose sync has reported PREPARED
\* eventually returns (the polls of the wait being fairly scheduled); one
\* whose sync has not reported PREPARED has not returned, and a waiting
\* invocation never fails: it waits on or returns.
C17_WaitsUntilPreparedWithoutTimeout ==
  /\ \A c \in Calls : prepared[c] ~> (pc[c] = "done")
  /\ [](\A c \in Calls : ~prepared[c] => pc[c] # "done")
  /\ [][\A c \in Calls : pc[c] = "waiting" => pc'[c] \in {"waiting", "done"}]_vars

\* an invocation has returned at a poll after error and ready states of its
\* sync, while another one still waits, its sync not ready
C17_Witness ==
  /\ lastOp.kind = "poll"
  /\ \E c, d \in Calls :
       /\ pc[c] = "done" /\ prepared[c]
       /\ pc[d] = "waiting" /\ ~prepared[d]

-----------------------------------------------------------------------------
(* The association has no retry loop *)

\* C18: a run of associate() ends, returning or failing, given that its
\* prompts and network calls settle; it makes at most one prompt for the
\* user id, one for the homeserver and one for the password, at most two
\* discovery queries and at most one login; a login is made only with a
\* homeserver resolved and no puppet.token in the config, and a discovery
\* query only with no bridge.homeserverUrl in the config.
C18_NoRetryLoop ==
  /\ (apc # "idle") ~> (apc \in {"done", "failed"})
  /\ [](/\ io.id <= 1 /\ io.homeserver <= 1 /\ io.password <= 1
        /\ io.discovery <= 2 /\ io.login <= 1)
  /\ [](io.login > 0 =>
          homeserver # "undefined" /\ ~Has(orig, "puppet", "token"))
  /\ [](io.discovery > 0 => ~Has(orig, "bridge", "homeserverUrl"))

\* associate() has returned after each of the three prompts, a discovery
\* query and a login
C18_Witness ==
  /\ apc = "done"
  /\ io.id = 1 /\ io.homeserver = 1 /\ io.password = 1
  /\ io.discovery = 1 /\ io.login = 1

-----------------------------------------------------------------------------
(* One session per Puppet *)

\* the invocations of startClient() whose client is started, its handlers
\* registered
Sessions == {c \in Calls : Listening(c)}

\* C19: whatever the operations, the repeated calls of startClient()
\* included, at most one client with registered handlers exists, and a
\* startClient() that gets past its config leaves the membership registry
\* built so far as it is.
C19_OneSessionRegistryKept ==
  [][/\ Cardinality(Sessions') <= 1
     /\ (lastOp'.kind = "resume" /\ ~IsUndefined(matrixRoomMembers)) =>
          matrixRoomMembers' = matrixRoomMembers]_vars

-----------------------------------------------------------------------------
(* No event before the handlers *)

\* C20: a client that has been started has its three handlers registered,
\* so that no event is emitted to a client without them: a PREPARED state
\* that a client has reported has been seen by the wait of its invocation,
\* and the membership event just delivered is in the registry.
C20_NoEventBeforeHandlers ==
  /\ \A c \in Calls : Started(c) => Listening(c)
  /\ \A c \in Calls : prepared[c] => isSynced[c]
  /\ lastOp.kind = "members" =>
       /\ ~IsUndefined(matrixRoomMembers)
       /\ MembersOf(matrixRoomMembers, lastOp.room) = lastOp.members

\* a membership event with members has been delivered by a client that
\* reported PREPARED before the first poll of its invocation's wait
C20_Witness ==
  /\ lastOp.kind = "members" /\ lastOp.members # <<>>
  /\ \E c \in Calls : pc[c] = "waiting" /\ prepared[c] /\ isSynced[c]

====
